---- MODULE Spec2Model ----
(***************************************************************************)
(* Model of hack/cmd/report/main.go: the generator that turns a Chainsaw   *)
(* JUnit XML report into a markdown summary.                               *)
(*                                                                         *)
(* Go strings are modelled as sequences of bytes, so that string equality, *)
(* the lexicographic comparison used by the sort, fmt.Sprintf and          *)
(* strings.Join are computed as the code computes them.                    *)
(*                                                                         *)
(* Two specifications are given:                                           *)
(*   Spec      one run of main()                                           *)
(*   SpecTwice a client of the package API that builds a Table, makes a    *)
(*             Report of it and calls Report.Print on two fresh sinks      *)
(***************************************************************************)
EXTENDS Integers, Sequences, FiniteSets

(***************************************************************************)
(* String literals of the program                                          *)
(***************************************************************************)

\* ":x: Failed"
Failed ==
    <<58, 120, 58, 32, 70, 97, 105, 108, 101, 100>>

\* ":white_check_mark: Passed"
Passed ==
    <<58, 119, 104, 105, 116, 101, 95, 99, 104, 101, 99, 107, 95, 109, 97, 114,
      107, 58, 32, 80, 97, 115, 115, 101, 100>>

\* "Test Suite"
HdrSuite ==
    <<84, 101, 115, 116, 32, 83, 117, 105, 116, 101>>

\* "Test Case"
HdrCase ==
    <<84, 101, 115, 116, 32, 67, 97, 115, 101>>

\* "Time (s)"
HdrTime ==
    <<84, 105, 109, 101, 32, 40, 115, 41>>

\* "Status"
HdrStatus ==
    <<83, 116, 97, 116, 117, 115>>

\* the headers generateMarkdown gives to NewTable
ReportHeaders ==
    <<HdrSuite, HdrCase, HdrTime, HdrStatus>>

\* "|"
Bar ==
    <<124>>

\* "\n"
NL ==
    <<10>>

\* "`"
Tick ==
    <<96>>

\* "## E2E report "
TitlePrefix ==
    <<35, 35, 32, 69, 50, 69, 32, 114, 101, 112, 111, 114, 116, 32>>

\* "Started at `"
StartedAt ==
    <<83, 116, 97, 114, 116, 101, 100, 32, 97, 116, 32, 96>>

\* "` took `"
Took ==
    <<96, 32, 116, 111, 111, 107, 32, 96>>

\* "`\n\n"
TickNLNL ==
    <<96, 10, 10>>

\* "![](https://img.shields.io/badge/tests-"
BadgePrefix ==
    <<33, 91, 93, 40, 104, 116, 116, 112, 115, 58, 47, 47, 105, 109, 103, 46,
      115, 104, 105, 101, 108, 100, 115, 46, 105, 111, 47, 98, 97, 100, 103,
      101, 47, 116, 101, 115, 116, 115, 45>>

\* "_passed%2C_"   (the format's %% is one %)
BadgePassed ==
    <<95, 112, 97, 115, 115, 101, 100, 37, 50, 67, 95>>

\* "_failed-"
BadgeFailed ==
    <<95, 102, 97, 105, 108, 101, 100, 45>>

\* ")\n\n"
BadgeEnd ==
    <<41, 10, 10>>

\* "green"
Green ==
    <<103, 114, 101, 101, 110>>

\* "red"
Red ==
    <<114, 101, 100>>

\* "## Report generation failed :skull:\n\n"
NoticeHeading ==
    <<35, 35, 32, 82, 101, 112, 111, 114, 116, 32, 103, 101, 110, 101, 114, 97,
      116, 105, 111, 110, 32, 102, 97, 105, 108, 101, 100, 32, 58, 115, 107,
      117, 108, 108, 58, 10, 10>>

\* "```log\n"
FenceOpen ==
    <<96, 96, 96, 108, 111, 103, 10>>

\* "\n```\n"
FenceClose ==
    <<10, 96, 96, 96, 10>>

\* "failed to open report file: "
ErrOpenPrefix ==
    <<102, 97, 105, 108, 101, 100, 32, 116, 111, 32, 111, 112, 101, 110, 32,
      114, 101, 112, 111, 114, 116, 32, 102, 105, 108, 101, 58, 32>>

\* "failed to read report file: "
ErrReadPrefix ==
    <<102, 97, 105, 108, 101, 100, 32, 116, 111, 32, 114, 101, 97, 100, 32,
      114, 101, 112, 111, 114, 116, 32, 102, 105, 108, 101, 58, 32>>

\* "failed to unmarshal XML: "
ErrXmlPrefix ==
    <<102, 97, 105, 108, 101, 100, 32, 116, 111, 32, 117, 110, 109, 97, 114,
      115, 104, 97, 108, 32, 88, 77, 76, 58, 32>>

\* "failed to open output file: "
ErrOutPrefix ==
    <<102, 97, 105, 108, 101, 100, 32, 116, 111, 32, 111, 112, 101, 110, 32,
      111, 117, 116, 112, 117, 116, 32, 102, 105, 108, 101, 58, 32>>

(***************************************************************************)
(* Inputs: the texts the environment can supply                            *)
(***************************************************************************)

\* the text of the error os.Open returns: "ENOENT"
CauseOpen ==
    <<69, 78, 79, 69, 78, 84>>

\* the text of the error io.ReadAll returns: "EIO"
CauseRead ==
    <<69, 73, 79>>

\* the text of the error xml.Unmarshal returns: "EOF"
CauseXml ==
    <<69, 79, 70>>

\* the text of the error os.Create returns: "EACCES"
CauseCreate ==
    <<69, 65, 67, 67, 69, 83>>

\* a suite name: "smoke"
Smoke ==
    <<115, 109, 111, 107, 101>>

\* a case name: "boot"
Boot ==
    <<98, 111, 111, 116>>

\* a case's time attribute: "0.5"
T05 ==
    <<48, 46, 53>>

\* the root's time attribute: "1.2"
T12 ==
    <<49, 46, 50>>

\* the root's timestamp attribute: "T0"
Stamp ==
    <<84, 48>>

\* a value of the -output flag: "out.md"
OutMd ==
    <<111, 117, 116, 46, 109, 100>>

\* most suites a document holds
MaxSuites == 2

\* most test cases a document holds, over all its suites
MaxRows == 3

\* a nil pointer, a nil error: a pointer is the sequence of its pointees
Nil == <<>>

\* a pointer to v, an error with text v
Ref(v) == <<v>>

\* names a suite may carry: an ordinary one, and one that reads as a status
SuiteNames == {Smoke, Failed}

\* names a case may carry: an ordinary one, and one that reads as a status
CaseNames == {Boot, Failed}

\* values of the -output flag: the default "" and a path
OutputPaths == {<<>>, OutMd}

\* TestCase: Failure is Nil or points to the element's text
TestCases ==
    [Name : CaseNames, Time : {T05}, Failure : {Nil, Ref(<<>>)}]

RECURSIVE Sum(_, _)
\* sizes[1] + ... + sizes[k]
Sum(sizes, k) ==
    IF k = 0 THEN 0 ELSE Sum(sizes, k - 1) + sizes[k]

\* the shapes a document can have: for each of its suites, how many cases
Shapes ==
    UNION { {sizes \in [1..k -> 0..MaxRows] : Sum(sizes, k) <= MaxRows}
            : k \in 0..MaxSuites }

\* the TestSuites with suites of the given sizes and names, the cases being
\* dealt to the suites in order
Document(sizes, names, cases) ==
    [TestSuite |->
        [s \in 1..Len(sizes) |->
            [Name |-> names[s],
             TestCase |-> [c \in 1..sizes[s] |-> cases[Sum(sizes, s - 1) + c]]]],
     Time |-> T12,
     Timestamp |-> Stamp]

(***************************************************************************)
(* Strings                                                                 *)
(***************************************************************************)

RECURSIVE GreaterFrom(_, _, _)
\* s > t decided from byte k on, the bytes before it being equal
GreaterFrom(s, t, k) ==
    IF k > Len(s) THEN FALSE
    ELSE IF k > Len(t) THEN TRUE
    ELSE IF s[k] # t[k] THEN s[k] > t[k]
    ELSE GreaterFrom(s, t, k + 1)

\* Go's s > t on strings: bytewise lexicographic order
StrGreater(s, t) ==
    GreaterFrom(s, t, 1)

RECURSIVE Join(_, _)
\* strings.Join(elems, sep)
Join(elems, sep) ==
    IF Len(elems) = 0 THEN <<>>
    ELSE IF Len(elems) = 1 THEN elems[1]
    ELSE elems[1] \o sep \o Join(Tail(elems), sep)

RECURSIVE Itoa(_)
\* fmt's %d of a non-negative int
Itoa(n) ==
    IF n < 10 THEN <<48 + n>> ELSE Itoa(n \div 10) \o <<48 + (n % 10)>>

RECURSIVE Flatten(_)
\* the bytes a sink holds after the writes ws
Flatten(ws) ==
    IF ws = <<>> THEN <<>> ELSE Head(ws) \o Flatten(Tail(ws))

\* ifElse(condition, trueVal, falseVal)
ifElse(condition, trueVal, falseVal) ==
    IF condition THEN trueVal ELSE falseVal

\* contains(slice, value)
contains(slice, value) ==
    \E i \in 1..Len(slice) : slice[i] = value

(***************************************************************************)
(* State                                                                   *)
(***************************************************************************)

VARIABLES
    pc,          \* where the run stands
    outputPath,  \* *outputPath, the -output flag
    writer,      \* main's writer: the name of the sink it writes to
    open,        \* the file handles that are open: "xmlFile", "file"
    testSuites,  \* generateMarkdown's testSuites
    table,       \* the Table that table and report.Table both point to
    report,      \* the Report's own fields
    sink,        \* for each sink, the writes it received, in order
    err,         \* the error generateMarkdown returns
    exitCode     \* the process's exit code, -1 while it runs

vars ==
    <<pc, outputPath, writer, open, testSuites, table, report, sink, err,
      exitCode>>

\* the sinks of a run of main
MainSinks == {"stdout", "stderr", "file"}

\* the sinks of the client that prints twice
ClientSinks == {"w1", "w2"}

\* the zero value of TestSuites
ZeroTestSuites ==
    [TestSuite |-> <<>>, Time |-> <<>>, Timestamp |-> <<>>]

\* the zero value of Table
ZeroTable ==
    [Headers |-> <<>>, Separator |-> <<>>, Rows |-> <<>>]

\* the zero value of Report (less its Table pointer)
ZeroReport ==
    [Time |-> <<>>, Timestamp |-> <<>>, OK |-> FALSE, Failures |-> 0, Passes |-> 0]

(***************************************************************************)
(* Table and Report                                                        *)
(***************************************************************************)

\* NewTable(headers)
NewTable(headers) ==
    [Headers |-> headers,
     Separator |-> [i \in 1..Len(headers) |-> <<>>],
     Rows |-> <<>>]

\* whether t.Add(row) panics
AddPanics(t, row) ==
    Len(row) # Len(t.Headers)

\* mutant of TableAdd: the row replaces the rows instead of being appended
TableAddReplacing(t, row) ==
    [t EXCEPT !.Rows = <<row>>]

\* t after t.Add(row), when it does not panic
TableAdd(t, row) ==
    [t EXCEPT !.Rows = Append(t.Rows, row)]

\* mutant of Status: a case named like the fail label is taken as failed
StatusAlsoByName(testcase) ==
    IF testcase.Failure # Nil \/ testcase.Name = Failed THEN Failed ELSE Passed

\* the status generateMarkdown gives a case
Status(testcase) ==
    IF testcase.Failure # Nil THEN Failed ELSE Passed

\* the row generateMarkdown adds for a case of a suite
CaseRow(suite, testcase) ==
    <<suite.Name, testcase.Name, Tick \o testcase.Time \o Tick, Status(testcase)>>

RECURSIVE AddCases(_, _, _)
\* generateMarkdown's inner loop from the k-th case of the suite on: the table
\* after table.Add of each case's row, or the panic of an Add
AddCases(t, suite, k) ==
    IF k > Len(suite.TestCase) THEN [table |-> t, panicked |-> FALSE]
    ELSE LET row == CaseRow(suite, suite.TestCase[k])
         IN  IF AddPanics(t, row) THEN [table |-> t, panicked |-> TRUE]
             ELSE AddCases(TableAdd(t, row), suite, k + 1)

RECURSIVE AddSuites(_, _, _)
\* generateMarkdown's outer loop from the s-th suite on
AddSuites(t, suites, s) ==
    IF s > Len(suites) THEN [table |-> t, panicked |-> FALSE]
    ELSE LET inner == AddCases(t, suites[s], 1)
         IN  IF inner.panicked THEN inner
             ELSE AddSuites(inner.table, suites, s + 1)

RECURSIVE Tally(_)
\* NewReport's loop: the counts after the rows, last row last
Tally(rows) ==
    IF rows = <<>> THEN [failures |-> 0, passes |-> 0]
    ELSE LET n == Len(rows)
             before == Tally(SubSeq(rows, 1, n - 1))
             row == rows[n]
         IN  IF contains(row, Failed)
             THEN [before EXCEPT !.failures = @ + 1]
             ELSE IF contains(row, Passed)
                  THEN [before EXCEPT !.passes = @ + 1]
                  ELSE before

\* NewReport(time, timestamp, table): the Report's own fields
NewReport(time, timestamp, t) ==
    LET c == Tally(t.Rows)
    IN  [Time |-> time, Timestamp |-> timestamp, OK |-> (c.failures = 0),
         Failures |-> c.failures, Passes |-> c.passes]

\* mutant of less: the comparison turned round, an ascending sort
lessAscending(rows, i, j) ==
    StrGreater(rows[j][Len(rows[j])], rows[i][Len(rows[i])])

\* the less function Print gives sort.Slice: row i goes before row j
less(rows, i, j) ==
    StrGreater(rows[i][Len(rows[i])], rows[j][Len(rows[j])])

RECURSIVE Orderings(_, _)
\* the orders of the rows with indices in S in which no row comes after a row
\* it is less than
Orderings(rows, S) ==
    IF S = {} THEN {<<>>}
    ELSE UNION { {<<rows[i]>> \o rest : rest \in Orderings(rows, S \ {i})}
                 : i \in {i \in S : \A j \in S : ~less(rows, j, i)} }

\* sort.Slice(rows, less): the slice is left sorted by less; the sort is not
\* stable, so rows that less does not order end in any order
SortSlice(rows) ==
    Orderings(rows, 1..Len(rows))

\* what Print writes before the rows: title, times, badge, headers, separator
PrintHead(r, t) ==
    << TitlePrefix \o ifElse(r.OK, Passed, Failed) \o NL,
       StartedAt \o r.Timestamp \o Took \o r.Time \o TickNLNL,
       BadgePrefix \o Itoa(r.Passes) \o BadgePassed \o Itoa(r.Failures)
           \o BadgeFailed \o ifElse(r.OK, Green, Red) \o BadgeEnd,
       Join(t.Headers, Bar) \o NL,
       Join(t.Separator, Bar) \o NL >>

\* what Print writes for the rows, once sorted
PrintRows(rows) ==
    [k \in 1..Len(rows) |-> Join(rows[k], Bar) \o NL]

\* the sink after fmt.Fprint*(w, ...) of each of ws in turn
Write(w, ws) ==
    [sink EXCEPT ![w] = @ \o ws]

\* r.Print(w): writes to w and leaves r.Table.Rows sorted
ReportPrint(w) ==
    \E sorted \in SortSlice(table.Rows) :
        /\ sink' = Write(w, PrintHead(report, table) \o PrintRows(sorted))
        /\ table' = [table EXCEPT !.Rows = sorted]

(***************************************************************************)
(* main and generateMarkdown, step by step                                 *)
(***************************************************************************)

Init ==
    /\ pc = "main"
    /\ outputPath = <<>>
    /\ writer = "stdout"
    /\ open = {}
    /\ testSuites = ZeroTestSuites
    /\ table = ZeroTable
    /\ report = ZeroReport
    /\ sink = [w \in MainSinks |-> <<>>]
    /\ err = Nil
    /\ exitCode = -1

\* main: flag.Parse, writer = os.Stdout
ParseFlags ==
    /\ pc = "main"
    /\ \E path \in OutputPaths :
        /\ outputPath' = path
        /\ pc' = IF path # <<>> THEN "create" ELSE "open"
    /\ writer' = "stdout"
    /\ UNCHANGED <<open, testSuites, table, report, sink, err, exitCode>>

\* main: os.Create(*outputPath); on failure a line on stderr and os.Exit(1),
\* on success the file is the writer and its Close is deferred
CreateOutput ==
    /\ pc = "create"
    /\ \E created \in BOOLEAN :
        IF created
        THEN /\ open' = open \cup {"file"}
             /\ writer' = "file"
             /\ sink' = [sink EXCEPT !["file"] = <<>>]
             /\ pc' = "open"
             /\ UNCHANGED exitCode
        ELSE /\ sink' = Write("stderr", <<ErrOutPrefix \o CauseCreate \o NL>>)
             /\ exitCode' = 1
             /\ pc' = "exited"
             /\ UNCHANGED <<open, writer>>
    /\ UNCHANGED <<outputPath, testSuites, table, report, err>>

\* generateMarkdown: os.Open(reportPath); on failure it returns the error, on
\* success xmlFile.Close() is deferred
OpenReport ==
    /\ pc = "open"
    /\ \E opened \in BOOLEAN :
        IF opened
        THEN /\ open' = open \cup {"xmlFile"}
             /\ pc' = "read"
             /\ UNCHANGED err
        ELSE /\ err' = Ref(ErrOpenPrefix \o CauseOpen)
             /\ pc' = "check"
             /\ UNCHANGED open
    /\ UNCHANGED <<outputPath, writer, testSuites, table, report, sink, exitCode>>

\* generateMarkdown: io.ReadAll(xmlFile); on failure it returns the error and
\* the deferred xmlFile.Close() runs
ReadAll ==
    /\ pc = "read"
    /\ \E read \in BOOLEAN :
        IF read
        THEN /\ pc' = "unmarshal"
             /\ UNCHANGED <<err, open>>
        ELSE /\ err' = Ref(ErrReadPrefix \o CauseRead)
             /\ open' = open \ {"xmlFile"}
             /\ pc' = "check"
    /\ UNCHANGED <<outputPath, writer, testSuites, table, report, sink, exitCode>>

\* generateMarkdown: xml.Unmarshal(xmlData, &testSuites), then NewTable; on
\* failure it returns the error and the deferred xmlFile.Close() runs
Unmarshal ==
    /\ pc = "unmarshal"
    /\ \/ /\ \E sizes \in Shapes :
                \E names \in [1..Len(sizes) -> SuiteNames] :
                    \E cases \in [1..Sum(sizes, Len(sizes)) -> TestCases] :
                        testSuites' = Document(sizes, names, cases)
          /\ table' = NewTable(ReportHeaders)
          /\ pc' = "loop"
          /\ UNCHANGED <<err, open>>
       \/ /\ err' = Ref(ErrXmlPrefix \o CauseXml)
          /\ open' = open \ {"xmlFile"}
          /\ pc' = "check"
          /\ UNCHANGED <<testSuites, table>>
    /\ UNCHANGED <<outputPath, writer, report, sink, exitCode>>

\* generateMarkdown: the two loops, table.Add of every case's row, and then
\* report := NewReport(...); a panic of table.Add ends the process
BuildReport ==
    /\ pc = "loop"
    /\ LET built == AddSuites(table, testSuites.TestSuite, 1)
       IN  IF built.panicked
           THEN /\ pc' = "panicked"
                /\ exitCode' = 2
                /\ UNCHANGED <<table, report>>
           ELSE /\ table' = built.table
                /\ report' = NewReport(testSuites.Time, testSuites.Timestamp, built.table)
                /\ pc' = "print"
                /\ UNCHANGED exitCode
    /\ UNCHANGED <<outputPath, writer, open, testSuites, sink, err>>

\* generateMarkdown: report.Print(writer), return nil; the deferred
\* xmlFile.Close() runs
PrintReport ==
    /\ pc = "print"
    /\ ReportPrint(writer)
    /\ err' = Nil
    /\ open' = open \ {"xmlFile"}
    /\ pc' = "check"
    /\ UNCHANGED <<outputPath, writer, testSuites, report, exitCode>>

\* mutant of WriteNotice: the notice goes to stderr, not to the writer
WriteNoticeToStderr ==
    /\ pc = "check"
    /\ err # Nil
    /\ sink' = Write("stderr", <<NoticeHeading, FenceOpen \o err[1] \o FenceClose>>)
    /\ pc' = "exit"
    /\ UNCHANGED <<outputPath, writer, open, testSuites, table, report, err,
                   exitCode>>

\* main, err != nil: the two Fprintf of the failure notice
WriteNotice ==
    /\ pc = "check"
    /\ err # Nil
    /\ sink' = Write(writer, <<NoticeHeading, FenceOpen \o err[1] \o FenceClose>>)
    /\ pc' = "exit"
    /\ UNCHANGED <<outputPath, writer, open, testSuites, table, report, err,
                   exitCode>>

\* main, err != nil: os.Exit(1); deferred calls do not run
Exit ==
    /\ pc = "exit"
    /\ exitCode' = 1
    /\ pc' = "exited"
    /\ UNCHANGED <<outputPath, writer, open, testSuites, table, report, sink, err>>

\* mutant of MainReturn: a report with failing cases makes the exit code 1
MainReturnByReport ==
    /\ pc = "check"
    /\ err = Nil
    /\ open' = open \ {"file"}
    /\ exitCode' = IF report.OK THEN 0 ELSE 1
    /\ pc' = "exited"
    /\ UNCHANGED <<outputPath, writer, testSuites, table, report, sink, err>>

\* main, err == nil: main returns, the deferred file.Close() runs if it was
\* deferred, the process exits with code 0
MainReturn ==
    /\ pc = "check"
    /\ err = Nil
    /\ open' = open \ {"file"}
    /\ exitCode' = 0
    /\ pc' = "exited"
    /\ UNCHANGED <<outputPath, writer, testSuites, table, report, sink, err>>

Next ==
    \/ ParseFlags
    \/ CreateOutput
    \/ OpenReport
    \/ ReadAll
    \/ Unmarshal
    \/ BuildReport
    \/ PrintReport
    \/ WriteNotice
    \/ Exit
    \/ MainReturn

Spec == Init /\ [][Next]_vars

(***************************************************************************)
(* A client of the package: one Table, one Report, Print on two sinks      *)
(***************************************************************************)

\* the rows generateMarkdown can add
ClientRows ==
    {CaseRow([Name |-> n], c) : n \in SuiteNames, c \in TestCases}

InitTwice ==
    /\ pc = "c_add"
    /\ outputPath = <<>>
    /\ writer = "w1"
    /\ open = {}
    /\ testSuites = ZeroTestSuites
    /\ table = NewTable(ReportHeaders)
    /\ report = ZeroReport
    /\ sink = [w \in ClientSinks |-> <<>>]
    /\ err = Nil
    /\ exitCode = -1

\* table.Add(row)
ClientAdd ==
    /\ pc = "c_add"
    /\ Len(table.Rows) < MaxRows
    /\ \E row \in ClientRows :
        /\ ~AddPanics(table, row)
        /\ table' = TableAdd(table, row)
    /\ UNCHANGED <<pc, outputPath, writer, open, testSuites, report, sink, err,
                   exitCode>>

\* report := NewReport(time, timestamp, table)
ClientNewReport ==
    /\ pc = "c_add"
    /\ report' = NewReport(T12, Stamp, table)
    /\ pc' = "c_print"
    /\ UNCHANGED <<outputPath, writer, open, testSuites, table, sink, err, exitCode>>

\* report.Print(w1)
ClientPrintFirst ==
    /\ pc = "c_print"
    /\ ReportPrint("w1")
    /\ writer' = "w2"
    /\ pc' = "c_again"
    /\ UNCHANGED <<outputPath, open, testSuites, report, err, exitCode>>

\* report.Print(w2)
ClientPrintAgain ==
    /\ pc = "c_again"
    /\ ReportPrint("w2")
    /\ pc' = "c_done"
    /\ UNCHANGED <<outputPath, writer, open, testSuites, report, err, exitCode>>

NextTwice ==
    \/ ClientAdd
    \/ ClientNewReport
    \/ ClientPrintFirst
    \/ ClientPrintAgain

SpecTwice == InitTwice /\ [][NextTwice]_vars

(***************************************************************************)
(* Properties                                                              *)
(***************************************************************************)

RECURSIVE CasesOf(_)
\* the (suite, case) pairs of a sequence of suites, in document order
CasesOf(suites) ==
    IF suites = <<>> THEN <<>>
    ELSE LET n == Len(suites)
             s == suites[n]
         IN  CasesOf(SubSeq(suites, 1, n - 1))
                 \o [k \in 1..Len(s.TestCase) |-> [suite |-> s, testcase |-> s.TestCase[k]]]

\* the cases of the parsed document, in document order
DocCases == CasesOf(testSuites.TestSuite)

\* the status field of a row
StatusOf(row) == row[Len(row)]

\* s ends with suffix
HasSuffix(s, suffix) ==
    /\ Len(s) >= Len(suffix)
    /\ SubSeq(s, Len(s) - Len(suffix) + 1, Len(s)) = suffix

\* a written table line whose last cell is the fail label, the pass label
IsFailLine(line) ==
    HasSuffix(line, Bar \o Failed \o NL)

IsPassLine(line) ==
    HasSuffix(line, Bar \o Passed \o NL)

\* report.Print(writer) has run in this run of main
Printed ==
    /\ pc \in {"check", "exited"}
    /\ err = Nil
    /\ table.Headers = ReportHeaders

\* the writes a sink received after the five of the title, times, badge,
\* headers and separator
DataLines(w) ==
    SubSeq(sink[w], Len(PrintHead(report, table)) + 1, Len(sink[w]))

\* the rows in the order a stable sort by status leaves them: the failed ones
\* in the order given, then the passed ones in the order given
StableByStatus(rows) ==
    SelectSeq(rows, LAMBDA r : StatusOf(r) = Failed)
        \o SelectSeq(rows, LAMBDA r : StatusOf(r) # Failed)

\* the number of rows whose status field is the given label
CountStatus(rows, label) ==
    Len(SelectSeq(rows, LAMBDA r : StatusOf(r) = label))

\* the failure notices main can write: one per error generateMarkdown returns
Notices ==
    {NoticeHeading \o FenceOpen \o m \o FenceClose :
        m \in {ErrOpenPrefix \o CauseOpen, ErrReadPrefix \o CauseRead,
               ErrXmlPrefix \o CauseXml}}

\* the sink the flags choose: the -output file if one is named, else stdout
ChosenSink == IF outputPath # <<>> THEN "file" ELSE "stdout"

\* C1: when the aggregation loop has ended, the k-th row of the table is the
\* row of the k-th case of the document, and its status is the fail label if
\* and only if that case has a failure element, and the pass label otherwise,
\* whatever the names are.
C1_StatusIffFailure ==
    pc = "print" =>
        /\ Len(table.Rows) = Len(DocCases)
        /\ \A k \in 1..Len(table.Rows) :
            LET c == DocCases[k].testcase
                row == table.Rows[k]
            IN  /\ row[1] = DocCases[k].suite.Name
                /\ row[2] = c.Name
                /\ (StatusOf(row) = Failed) <=> (c.Failure # Nil)
                /\ (c.Failure = Nil) => (StatusOf(row) = Passed)

\* C1 witness: the loop has ended on a table with a passing case named like
\* the fail label and a failing case with an ordinary name
C1_Witness ==
    /\ pc = "print"
    /\ \E k \in 1..Len(table.Rows) :
        /\ table.Rows[k][2] = Failed
        /\ DocCases[k].testcase.Failure = Nil
        /\ StatusOf(table.Rows[k]) = Passed
    /\ \E k \in 1..Len(table.Rows) :
        /\ table.Rows[k][2] = Boot
        /\ DocCases[k].testcase.Failure # Nil
        /\ StatusOf(table.Rows[k]) = Failed

\* C2 (as claimed): once the report is made, Failures is the number of rows
\* whose last field is the fail label and Passes the number of rows whose
\* last field is the pass label.
C2_CountsByLastField ==
    pc \in {"print", "check", "exit", "exited"} =>
        /\ report.Failures = CountStatus(table.Rows, Failed)
        /\ report.Passes = CountStatus(table.Rows, Passed)

\* C3: in the data rows Print wrote, every row is a fail row or a pass row and
\* no pass row is written above a fail row: the fail rows form one block at
\* the top, the pass rows one block below it.
C3_StatusBlocks ==
    Printed =>
        LET lines == DataLines(writer)
        IN  /\ Len(lines) = Len(DocCases)
            /\ \A i \in 1..Len(lines) : IsFailLine(lines[i]) \/ IsPassLine(lines[i])
            /\ \A i, j \in 1..Len(lines) :
                (i < j) => ~(IsPassLine(lines[i]) /\ IsFailLine(lines[j]))

\* C3 witness: Print has written a table whose cases came pass, fail, pass
C3_Witness ==
    /\ Printed
    /\ Len(DocCases) = 3
    /\ DocCases[1].testcase.Failure = Nil
    /\ DocCases[2].testcase.Failure # Nil
    /\ DocCases[3].testcase.Failure = Nil
    /\ IsFailLine(DataLines(writer)[1])
    /\ IsPassLine(DataLines(writer)[3])

\* C4 (as claimed): the data rows Print wrote are the rows in document order,
\* stably sorted by status: rows of one status keep their document order.
C4_StableOrder ==
    Printed =>
        DataLines(writer)
            = PrintRows(StableByStatus(
                  [k \in 1..Len(DocCases) |->
                      CaseRow(DocCases[k].suite, DocCases[k].testcase)]))

C6_NoticeOnEveryFatalError ==
    (pc = "exited" /\ exitCode # 0) => Flatten(sink[ChosenSink]) \in Notices

\* C6 (amended): when the process has exited with a non-zero code after
\* generateMarkdown returned an error, the chosen sink holds the failure
\* notice with that error's text and nothing else; when it has exited because
\* the output file could not be created, the chosen sink and stdout hold
\* nothing and stderr holds one line.
C6_NoticeOnInputError ==
    (pc = "exited" /\ exitCode # 0) =>
        /\ exitCode = 1
        /\ IF err # Nil
           THEN /\ writer = ChosenSink
                /\ Flatten(sink[ChosenSink]) \in Notices
                /\ sink[ChosenSink]
                       = <<NoticeHeading, FenceOpen \o err[1] \o FenceClose>>
                /\ sink["stderr"] = <<>>
           ELSE /\ ChosenSink = "file"
                /\ sink["file"] = <<>>
                /\ sink["stdout"] = <<>>
                /\ sink["stderr"] = <<ErrOutPrefix \o CauseCreate \o NL>>

\* C6 witness: the run has exited with code 1 on malformed XML, the notice
\* in the output file
C6_Witness ==
    /\ pc = "exited"
    /\ exitCode = 1
    /\ err = Ref(ErrXmlPrefix \o CauseXml)
    /\ ChosenSink = "file"
    /\ Flatten(sink["file"])
           = NoticeHeading \o FenceOpen \o ErrXmlPrefix \o CauseXml \o FenceClose

\* C7: a run never stops short of its exit by a panic; it has exited with
\* code 0 if the document was parsed (and the report was then printed),
\* however many rows failed, and with code 1 otherwise.
C7_ExitZeroIffReported ==
    /\ pc # "panicked"
    /\ (pc # "exited") <=> (exitCode = -1)
    /\ pc = "exited" =>
        /\ exitCode \in {0, 1}
        /\ (exitCode = 0) <=> (table.Headers = ReportHeaders)
        /\ (exitCode = 0) => Printed /\ Len(sink[writer]) > 0

\* C7 witness: the run has exited with code 0 on a report with failing cases
C7_Witness ==
    /\ pc = "exited"
    /\ exitCode = 0
    /\ ~report.OK
    /\ report.Failures >= 2
    /\ \E k \in 1..Len(DocCases) : DocCases[k].testcase.Failure # Nil

\* C8: Table.Add never panics; the table handed to NewReport holds as many
\* rows as the document holds cases, and so does the table Print wrote; for a
\* document without suites Print wrote the five head lines and no data row.
C8_RowCount ==
    /\ pc # "panicked"
    /\ pc \in {"print", "check", "exited"} /\ table.Headers = ReportHeaders
           => Len(table.Rows) = Len(DocCases)
    /\ Printed => Len(DataLines(writer)) = Len(DocCases)
    /\ (Printed /\ testSuites.TestSuite = <<>>) => sink[writer] = PrintHead(report, table)

\* C8 witness: Print has written the table of a document whose first suite
\* holds no case and whose second suite holds two
C8_Witness ==
    /\ Printed
    /\ Len(testSuites.TestSuite) = 2
    /\ Len(testSuites.TestSuite[1].TestCase) = 0
    /\ Len(testSuites.TestSuite[2].TestCase) = 2
    /\ Len(DataLines(writer)) = 2

\* C9 (as claimed): Print changes neither the report's rows nor its counts
\* nor its success flag.
C9_PrintLeavesReport ==
    [][pc = "print" => (table' = table /\ report' = report)]_vars

\* C10 (as claimed): when the process has exited, every file handle it opened
\* has been closed.
C10_AllClosedAtExit ==
    pc = "exited" => open = {}
====
